---- MODULE Spec2Model ----
(***************************************************************************)
(* The request engine of the Caret API client (client.ts, Caret.request)   *)
(* and its error taxonomy (core/errors.ts), as a state machine.            *)
(*                                                                         *)
(* One call of Caret.request is followed from its entry to the point it    *)
(* resolves or rejects.  The call is suspended at two kinds of await: the   *)
(* fetch of an attempt (pc = "fetching") and the setTimeout of a backoff   *)
(* (pc = "sleeping").  Each action is the code that runs between two such  *)
(* suspension points.  Time is in milliseconds.                            *)
(*                                                                         *)
(* Spec follows the retry loop of one call.  SpecBuild follows what a call *)
(* builds before its loop (URL, headers, body) for every base URL, method, *)
(* path and options; SpecConstruct the constructor of Caret; SpecErrors    *)
(* CaretAPIError.generate; SpecWebhook one call of verify or verifyRequest *)
(* of the WebhookVerifier (webhooks/verifier.ts).                          *)
(***************************************************************************)
EXTENDS Integers, Sequences, FiniteSets, TLC

(***************************************************************************)
(* Bounds of the model.                                                    *)
(***************************************************************************)
MaxMaxRetries == 2

\* options.maxRetries is not validated by the constructor: any number.
MaxRetriesValues == (0 - 1) .. MaxMaxRetries

\* options.timeout (ms); 30000 is the default of the constructor.
Timeouts == {1000, 30000}

\* Time (ms) the transport needs to settle an attempt.
Durations == {0, 500}

\* Status codes the transport answers with.
Statuses == {200, 204, 400, 401, 403, 404, 409, 422, 429, 500, 503}

(***************************************************************************)
(* JSON values and response bodies.                                        *)
(***************************************************************************)
JNull == [type |-> "null", hasMessage |-> FALSE, message |-> "", rest |-> ""]

JNumber(n) ==
    [type |-> "number", hasMessage |-> FALSE, message |-> "", rest |-> ToString(n)]

JObject(hasMessage, message, rest) ==
    [type |-> "object", hasMessage |-> hasMessage, message |-> message, rest |-> rest]

\* The texts a response body can have.
BodyTexts ==
    { "", "invalid json", "null", "7", "{}", " { } ",
      "{\"message\":\"Rate limited\"}", "{\"message\":\"\"}",
      "{\"success\":true}" }

\* Response.json(): the body text parsed as JSON; ok = FALSE is a rejection
\* with a SyntaxError.
ResponseJson(text) ==
    CASE text = "null" -> [ok |-> TRUE, value |-> JNull]
      [] text = "7" -> [ok |-> TRUE, value |-> JNumber(7)]
      [] text \in {"{}", " { } "} -> [ok |-> TRUE, value |-> JObject(FALSE, "", "")]
      [] text = "{\"message\":\"Rate limited\"}" ->
            [ok |-> TRUE, value |-> JObject(TRUE, "Rate limited", "")]
      [] text = "{\"message\":\"\"}" -> [ok |-> TRUE, value |-> JObject(TRUE, "", "")]
      [] text = "{\"success\":true}" ->
            [ok |-> TRUE, value |-> JObject(FALSE, "", "success:true")]
      [] OTHER -> [ok |-> FALSE, value |-> JNull]

(***************************************************************************)
(* Response headers.                                                       *)
(***************************************************************************)
\* Header values are strings, modelled as sequences of characters.
RetryAfterValues == { <<>>, <<"0">>, <<"2">>, <<"3", "s">>, <<"s">>, <<"-", "1">> }

\* The spellings of the header name a server may use.
RetryAfterNames == {"retry-after", "Retry-After", "RETRY-AFTER"}

NoHeaders == [n \in {} |-> <<>>]

Header(name, value) == [n \in {name} |-> value]

\* The header lists of a response that has a Retry-After header.
RetryAfterHeaders ==
    { Header("retry-after", v) : v \in RetryAfterValues } \cup
    { Header(name, <<"2">>) : name \in RetryAfterNames }

\* Headers of the fetch API keep their names in lower case.
LowerCase(name) ==
    IF name \in RetryAfterNames THEN "retry-after" ELSE name

\* response.headers.forEach((value, key) => responseHeaders[key] = value)
HeadersForEach(raw) ==
    [k \in {LowerCase(n) : n \in DOMAIN raw} |->
        raw[CHOOSE n \in DOMAIN raw : LowerCase(n) = k]]

\* headers[name], undefined (modelled as the falsy empty string) when absent.
HeaderGet(headers, name) ==
    IF name \in DOMAIN headers THEN headers[name] ELSE <<>>

(***************************************************************************)
(* Numbers that may be NaN.                                                *)
(***************************************************************************)
Num(n) == [nan |-> FALSE, v |-> n]
NaN == [nan |-> TRUE, v |-> 0]

DigitValue(c) ==
    CASE c = "0" -> 0 [] c = "1" -> 1 [] c = "2" -> 2 [] c = "3" -> 3
      [] c = "4" -> 4 [] c = "5" -> 5 [] c = "6" -> 6 [] c = "7" -> 7
      [] c = "8" -> 8 [] c = "9" -> 9 [] OTHER -> 0 - 1

IsDigit(c) == DigitValue(c) >= 0

RECURSIVE LeadingDigits(_, _)
\* The value of the longest prefix of digits of s, continuing from acc.
LeadingDigits(s, acc) ==
    IF s = <<>> \/ ~IsDigit(Head(s)) THEN acc
    ELSE LeadingDigits(Tail(s), 10 * acc + DigitValue(Head(s)))

\* parseInt(s): an optional sign, then the longest prefix of decimal digits;
\* NaN when there is no digit.
ParseInt(s) ==
    LET neg == s # <<>> /\ Head(s) = "-"
        body == IF s # <<>> /\ Head(s) \in {"-", "+"} THEN Tail(s) ELSE s
    IN  IF body = <<>> \/ ~IsDigit(Head(body)) THEN NaN
        ELSE Num((IF neg THEN 0 - 1 ELSE 1) * LeadingDigits(body, 0))

Times(x, k) == IF x.nan THEN NaN ELSE Num(x.v * k)


\* setTimeout(f, d): a delay that is NaN or below 1 is set to 1.
TimerDelay(d) == IF d.nan \/ d.v < 1 THEN 1 ELSE d.v

(***************************************************************************)
(* Error taxonomy (core/errors.ts).                                        *)
(***************************************************************************)
\* The table with the entry of 409 left out.
GetErrorClassWithoutConflict(status) ==
    CASE status = 400 -> "BadRequestError"
      [] status = 401 -> "AuthenticationError"
      [] status = 403 -> "PermissionDeniedError"
      [] status = 404 -> "NotFoundError"
      [] status = 422 -> "UnprocessableEntityError"
      [] status = 429 -> "RateLimitError"
      [] status = 500 -> "InternalServerError"
      [] OTHER -> "CaretAPIError"

GetErrorClass(status) ==
    CASE status = 400 -> "BadRequestError"
      [] status = 401 -> "AuthenticationError"
      [] status = 403 -> "PermissionDeniedError"
      [] status = 404 -> "NotFoundError"
      [] status = 409 -> "ConflictError"
      [] status = 422 -> "UnprocessableEntityError"
      [] status = 429 -> "RateLimitError"
      [] status = 500 -> "InternalServerError"
      [] OTHER -> "CaretAPIError"

\* The classes of the hierarchy rooted at CaretAPIError.
APIErrorClasses ==
    { "CaretAPIError", "BadRequestError", "AuthenticationError",
      "PermissionDeniedError", "NotFoundError", "ConflictError",
      "UnprocessableEntityError", "RateLimitError", "InternalServerError" }

\* An error value.  origin is the attempt whose code raised it.
ErrorValue(class, status, data, message, headers, origin) ==
    [class |-> class, status |-> status, error |-> data, message |-> message,
     headers |-> headers, origin |-> origin]

\* CaretAPIError.generate(status, error, message, headers)
Generate(status, data, message, headers, origin) ==
    ErrorValue(GetErrorClass(status), status, data, message, headers, origin)

\* An error that is no CaretAPIError: the Error / DOMException / SyntaxError /
\* TypeError raised by fetch, by response.json() or by the code of the attempt.
PlainError(class, origin) ==
    ErrorValue(class, 0, JNull, "", NoHeaders, origin)

\* The value of a variable that was never assigned.
Undefined == PlainError("undefined", 0 - 1)

\* error instanceof CaretAPIError
InstanceOfCaretAPIError(e) == e.class \in APIErrorClasses

(***************************************************************************)
(* Responses.                                                              *)
(***************************************************************************)
ReasonPhrase(status) ==
    CASE status = 200 -> "OK"
      [] status = 204 -> "No Content"
      [] status = 400 -> "Bad Request"
      [] status = 404 -> "Not Found"
      [] status = 429 -> "Too Many Requests"
      [] status = 500 -> "Internal Server Error"
      [] OTHER -> ""

Response(status, headers, body) ==
    [status |-> status, statusText |-> ReasonPhrase(status), headers |-> headers,
     body |-> body]

\* The responses the transport can produce: every status with every body, and
\* the rate-limit responses that carry a Retry-After header.
Responses ==
    { Response(st, NoHeaders, b) : st \in Statuses, b \in BodyTexts } \cup
    { Response(429, h, b) :
        h \in RetryAfterHeaders, b \in {"null", "{\"message\":\"Rate limited\"}"} }

\* Success taken to be status 200 alone.
OkOnly200(response) == response.status = 200

\* response.ok
Ok(response) == response.status >= 200 /\ response.status <= 299

\* try { errorData = await response.json() } catch { errorData = {message: statusText} }
ReadErrorData(response) ==
    LET parsed == ResponseJson(response.body)
    IN  IF parsed.ok THEN parsed.value
        ELSE JObject(TRUE, response.statusText, "")

\* errorData.message || `HTTP ${status}: ${statusText}`
ErrorMessage(data, response) ==
    IF data.hasMessage /\ data.message # "" THEN data.message
    ELSE "HTTP " \o ToString(response.status) \o ": " \o response.statusText

\* What the non-ok branch throws: reading .message of null raises a TypeError,
\* otherwise the error CaretAPIError.generate builds.
NotOkThrows(response, origin) ==
    LET data == ReadErrorData(response)
    IN  IF data.type = "null" THEN PlainError("TypeError", origin)
        ELSE Generate(response.status, data, ErrorMessage(data, response),
                      HeadersForEach(response.headers), origin)

(***************************************************************************)
(* Retry policy.                                                           *)
(***************************************************************************)
\* A loop that runs once too often.
LoopConditionOffByOne(a, n) == a <= n + 1

\* for (...; attempt <= this.maxRetries; ...)
LoopCondition(a, n) == a <= n

\* attempt < this.maxRetries
AttemptsRemain(a, n) == a < n

\* attempt++
NextAttempt(a) == a + 1

\* Backoff seeded with the number of the retry instead of the attempt index.
BackoffFromRetryCount(a) == Num((2 ^ (a + 1)) * 1000)

\* 2 ** attempt * 1000
Backoff(a) == Num((2 ^ a) * 1000)

\* error.headers["retry-after"] || error.headers["Retry-After"]
RetryAfter(headers) ==
    IF HeaderGet(headers, "retry-after") # <<>>
    THEN HeaderGet(headers, "retry-after")
    ELSE HeaderGet(headers, "Retry-After")

\* retryAfter ? parseInt(retryAfter) * 1000 : 2 ** attempt * 1000
RateLimitDelay(headers, a) ==
    IF RetryAfter(headers) # <<>>
    THEN Times(ParseInt(RetryAfter(headers)), 1000)
    ELSE Backoff(a)


(***************************************************************************)
(* Values that may be undefined.                                           *)
(***************************************************************************)
\* A property that is set to v.
Some(v) == [defined |-> TRUE, v |-> v]

\* A property that is absent; v is a placeholder of the property's type.
None(v) == [defined |-> FALSE, v |-> v]

\* x ?? y
Coalesce(x, y) == IF x.defined THEN x.v ELSE y

(***************************************************************************)
(* The constructor of Caret.                                               *)
(***************************************************************************)
\* Strings that are URLs or paths are sequences of tokens: the separator "/"
\* and the texts between separators.
DefaultBaseURL == << "https:", "/", "/", "api.caret.so", "/", "v1" >>

DefaultTimeout == 30000

DefaultMaxRetries == 3

ApiKeyRequired ==
    "API key is required. Set CARET_API_KEY environment variable or pass apiKey option."

\* options.apiKey ?? process.env.CARET_API_KEY ?? ""
ResolveApiKey(options, env) == Coalesce(options.apiKey, Coalesce(env, ""))

\* !this.apiKey
MissingApiKey(key) == key = ""

(***************************************************************************)
(* The URL of a request.                                                   *)
(***************************************************************************)
StartsWith(s, c) == Len(s) > 0 /\ s[1] = c

EndsWith(s, c) == Len(s) > 0 /\ s[Len(s)] = c

\* path.startsWith("/") ? path.slice(1) : path
CleanPath(path) == IF StartsWith(path, "/") THEN Tail(path) ELSE path

\* this.baseURL.endsWith("/") ? this.baseURL : `${this.baseURL}/`
BaseForJoin(base) == IF EndsWith(base, "/") THEN base ELSE Append(base, "/")

\* An absolute URL scheme://host/path parsed into its parts; a URL without a
\* path has the path "/".
ParseAbsolute(s) ==
    [valid |-> TRUE, scheme |-> s[1], host |-> s[4],
     path |-> IF Len(s) > 4 THEN SubSeq(s, 5, Len(s)) ELSE << "/" >>,
     search |-> << >>]

InvalidURL ==
    [valid |-> FALSE, scheme |-> "", host |-> "", path |-> << >>, search |-> << >>]

RECURSIVE SkipSlashes(_)
SkipSlashes(s) == IF StartsWith(s, "/") THEN SkipSlashes(Tail(s)) ELSE s

\* The position of the last separator of a path that has one.
LastSlash(p) == CHOOSE i \in 1 .. Len(p) : p[i] = "/" /\ \A j \in (i + 1) .. Len(p) : p[j] # "/"

\* new URL(rel, base) for an absolute base with the scheme https: a
\* reference that begins with two separators names a host (further
\* separators before the host are skipped), one that begins with one
\* separator replaces the path of the base, any other replaces the last
\* segment of the path of the base.  A reference naming no host is a
\* TypeError.
NewURL(rel, base) ==
    LET b == ParseAbsolute(base)
    IN  IF rel = << >> THEN b
        ELSE IF StartsWith(rel, "/")
        THEN IF StartsWith(Tail(rel), "/")
             THEN LET r == SkipSlashes(rel)
                  IN  IF r = << >> THEN InvalidURL
                      ELSE [b EXCEPT !.host = r[1],
                                     !.path = IF Len(r) > 1 THEN Tail(r) ELSE << "/" >>]
             ELSE [b EXCEPT !.path = rel]
        ELSE [b EXCEPT !.path = SubSeq(b.path, 1, LastSlash(b.path)) \o rel]

\* url.toString() without the query.
Href(u) == << u.scheme, "/", "/", u.host >> \o u.path

\* String(value) of a parameter value.
String(value) == IF value.type = "object" THEN "[object Object]" ELSE value.rest

\* value !== undefined && value !== null
Given(value) == value.type \notin {"undefined", "null"}

\* The array index a property name is, -1 for a name that is none.
IndexOf(key) ==
    CASE key = "0" -> 0 [] key = "1" -> 1 [] key = "2" -> 2 [] OTHER -> 0 - 1

\* The entries at the positions S of params, by ascending array index.
RECURSIVE Ascending(_, _)
Ascending(params, S) ==
    IF S = {} THEN << >>
    ELSE LET i == CHOOSE i \in S : \A j \in S : IndexOf(params[i][1]) <= IndexOf(params[j][1])
         IN  << params[i] >> \o Ascending(params, S \ {i})

IsIndex(p) == IndexOf(p[1]) >= 0

IsName(p) == IndexOf(p[1]) < 0

\* Object.entries(params): params lists the properties in the order they
\* were inserted; the properties whose names are array indices come first,
\* by ascending index, the others follow in the order of insertion.
ObjectEntries(params) ==
    Ascending(params, { i \in 1 .. Len(params) : IsIndex(params[i]) })
    \o SelectSeq(params, IsName)

\* forEach(([key, value]) => ...): the pairs appended to url.searchParams
\* for the entries, in order.
RECURSIVE SearchParams(_)
SearchParams(params) ==
    IF params = << >> THEN << >>
    ELSE LET p == Head(params)
         IN  (IF Given(p[2]) THEN << << p[1], String(p[2]) >> >> ELSE << >>)
             \o SearchParams(Tail(params))

\* The URL request builds from path and options.params.
BuildURL(base, path, params) ==
    LET u == NewURL(CleanPath(path), BaseForJoin(base))
    IN  IF u.valid THEN [u EXCEPT !.search = SearchParams(ObjectEntries(params))] ELSE u

(***************************************************************************)
(* The headers and the body of a request.                                  *)
(***************************************************************************)
JUndefined == [type |-> "undefined", hasMessage |-> FALSE, message |-> "", rest |-> ""]

JBool(b) ==
    [type |-> "boolean", hasMessage |-> FALSE, message |-> "",
     rest |-> IF b THEN "true" ELSE "false"]

JString(s) == [type |-> "string", hasMessage |-> FALSE, message |-> "", rest |-> s]

\* The truth of a value in a condition.
Truthy(v) ==
    CASE v.type \in {"undefined", "null"} -> FALSE
      [] v.type = "number" -> v.rest # "0"
      [] v.type = "boolean" -> v.rest = "true"
      [] v.type = "string" -> v.rest # ""
      [] OTHER -> TRUE

\* JSON.stringify(v) of a value that is not undefined.
JsonStringify(v) ==
    CASE v.type = "null" -> "null"
      [] v.type \in {"number", "boolean"} -> v.rest
      [] v.type = "string" -> "\"" \o v.rest \o "\""
      [] OTHER ->
            "{" \o (IF v.hasMessage THEN "\"message\":\"" \o v.message \o "\"" ELSE "")
                \o (IF v.hasMessage /\ v.rest # "" THEN "," ELSE "")
                \o (IF v.rest = "success:true" THEN "\"success\":true" ELSE "")
                \o "}"

BodyMethods == {"POST", "PATCH", "PUT"}

NoBody == None("")

\* options.body && (method === "POST" || method === "PATCH" || method === "PUT")
\*   ? JSON.stringify(options.body) : no body
BodyOf(method, body) ==
    IF Truthy(body) /\ method \in BodyMethods THEN Some(JsonStringify(body)) ELSE NoBody

\* { Authorization, "Content-Type", ...options.headers }
HeadersOf(key, extra) ==
    LET defaults == [n \in {"Authorization", "Content-Type"} |->
                        IF n = "Authorization" THEN "Bearer " \o key
                        ELSE "application/json"]
    IN  [n \in DOMAIN defaults \cup DOMAIN extra |->
            IF n \in DOMAIN extra THEN extra[n] ELSE defaults[n]]

\* requestOptions, the signal apart.
RequestOptions(method, key, options) ==
    [method |-> method, headers |-> HeadersOf(key, options.headers),
     body |-> BodyOf(method, options.body)]

\* The names of the headers of the model, in lower case.
LowerName(name) ==
    CASE name \in {"Authorization", "authorization"} -> "authorization"
      [] name \in {"Content-Type", "content-type"} -> "content-type"
      [] name = "X-Custom" -> "x-custom"
      [] OTHER -> name

\* The Headers fetch makes of the headers record: the names are in lower
\* case, and the values of names that differ only in case are joined, the
\* value of the default (the earlier property of the record) first.
FetchHeaders(headers) ==
    [k \in { LowerName(n) : n \in DOMAIN headers } |->
        LET same == { n \in DOMAIN headers : LowerName(n) = k }
            first == CHOOSE n \in same :
                        n \in {"Authorization", "Content-Type"} \/ same = {n}
        IN  IF same = {first} THEN headers[first]
            ELSE headers[first] \o ", " \o headers[CHOOSE n \in same : n # first]]

NoRequestOptions ==
    [method |-> "", headers |-> [n \in {} |-> ""], body |-> NoBody]

\* The arguments of a call of request.
Arguments(method, path, options) ==
    [method |-> method, path |-> path, options |-> options]

NoOptions == [params |-> << >>, headers |-> [n \in {} |-> ""], body |-> JUndefined]

NoArguments == Arguments("", << >>, NoOptions)

(***************************************************************************)
(* Webhook signatures (webhooks/verifier.ts).                              *)
(*                                                                         *)
(* Texts are sequences of characters and buffers are sequences of bytes.   *)
(* A character of the ASCII range and its byte are the same token; "xFF"   *)
(* is a byte that is no UTF-8, "uFFFD" is the replacement character and    *)
(* "xEF" "xBF" "xBD" are the bytes of its UTF-8 encoding.                  *)
(***************************************************************************)
\* The length of a digest in bytes (32 for SHA-256).
DigestLen == 2

RECURSIVE Pow256(_)
Pow256(n) == IF n = 0 THEN 1 ELSE 256 * Pow256(n - 1)

\* Buffer.toString(): the bytes decoded as UTF-8.
RECURSIVE BufferToString(_)
BufferToString(bytes) ==
    IF bytes = << >> THEN << >>
    ELSE IF Len(bytes) >= 3 /\ SubSeq(bytes, 1, 3) = << "xEF", "xBF", "xBD" >>
    THEN << "uFFFD" >> \o BufferToString(SubSeq(bytes, 4, Len(bytes)))
    ELSE IF Head(bytes) \in {"xFF", "xEF", "xBF", "xBD"}
    THEN << "uFFFD" >> \o BufferToString(Tail(bytes))
    ELSE << Head(bytes) >> \o BufferToString(Tail(bytes))

\* The UTF-8 encoding of a text.
RECURSIVE Utf8(_)
Utf8(text) ==
    IF text = << >> THEN << >>
    ELSE (IF Head(text) = "uFFFD" THEN << "xEF", "xBF", "xBD" >> ELSE << Head(text) >>)
         \o Utf8(Tail(text))

\* typeof payload === "string" ? payload : payload.toString()
PayloadString(payload) ==
    IF payload.kind = "string" THEN payload.data ELSE BufferToString(payload.data)

ByteCode(b) ==
    CASE b = "{" -> 1 [] b = "}" -> 2 [] b = "7" -> 3 [] b = "xFF" -> 4
      [] b = "xEF" -> 5 [] b = "xBF" -> 6 [] b = "xBD" -> 7

SecretCode(s) == IF s = "test-webhook-secret" THEN 1 ELSE 2

RECURSIVE Mix(_, _)
Mix(acc, bytes) ==
    IF bytes = << >> THEN acc ELSE Mix(acc * 8 + ByteCode(Head(bytes)), Tail(bytes))

\* The HMAC of a sequence of bytes: a keyed hash that has no collision among
\* the secrets and the byte sequences of the model.
HmacBytes(key, bytes) ==
    LET h == (Mix(SecretCode(key), bytes) * 40503) % Pow256(DigestLen)
    IN  [i \in 1 .. DigestLen |-> (h \div Pow256(i - 1)) % 256]

\* createHmac("sha256", secret).update(text).digest(): update encodes the
\* string as UTF-8.
Hmac(key, text) == HmacBytes(key, Utf8(text))

HexDigits ==
    << "0", "1", "2", "3", "4", "5", "6", "7", "8", "9", "a", "b", "c", "d", "e", "f" >>

\* digest("hex"): two lower-case digits for each byte.
RECURSIVE ToHex(_)
ToHex(bytes) ==
    IF bytes = << >> THEN << >>
    ELSE << HexDigits[(Head(bytes) \div 16) + 1], HexDigits[(Head(bytes) % 16) + 1] >>
         \o ToHex(Tail(bytes))

UpperCase(c) ==
    CASE c = "a" -> "A" [] c = "b" -> "B" [] c = "c" -> "C" [] c = "d" -> "D"
      [] c = "e" -> "E" [] c = "f" -> "F" [] OTHER -> c

\* The value of a hexadecimal digit of either case, -1 for any other
\* character.
HexValue(c) ==
    IF \E i \in 1 .. 16 : HexDigits[i] = c \/ UpperCase(HexDigits[i]) = c
    THEN (CHOOSE i \in 1 .. 16 : HexDigits[i] = c \/ UpperCase(HexDigits[i]) = c) - 1
    ELSE 0 - 1

\* Buffer.from(s, "hex"): the pairs of digits decoded up to the first pair
\* that is not two hexadecimal digits; a last single character is dropped.
RECURSIVE FromHex(_)
FromHex(s) ==
    IF Len(s) < 2 \/ HexValue(s[1]) < 0 \/ HexValue(s[2]) < 0 THEN << >>
    ELSE << 16 * HexValue(s[1]) + HexValue(s[2]) >> \o FromHex(SubSeq(s, 3, Len(s)))

\* timingSafeEqual(a, b): a RangeError when the lengths differ.
TimingSafeEqual(a, b) ==
    [threw |-> Len(a) # Len(b), equal |-> a = b]

\* verify(payload, signature): the try block, and false from the catch.
Verify(key, payload, sig) ==
    LET calculatedSignature == ToHex(Hmac(key, PayloadString(payload)))
        compared == TimingSafeEqual(FromHex(calculatedSignature), FromHex(sig))
    IN  IF compared.threw THEN FALSE ELSE compared.equal

\* A call of verify and what it returned.
VerifyCall(payload, sig, returned) ==
    [called |-> TRUE, payload |-> payload, signature |-> sig, returned |-> returned]

NoVerifyCall ==
    [called |-> FALSE, payload |-> [kind |-> "string", data |-> << >>],
     signature |-> << >>, returned |-> FALSE]

\* The spellings of the name of the signature header.
SignatureNames == {"x-caret-signature", "X-Caret-Signature", "X-CARET-SIGNATURE"}

\* request.headers.get("x-caret-signature"): the name is matched in any
\* case; null when the header is absent.
HeadersGet(headers) ==
    IF \E n \in DOMAIN headers : n \in SignatureNames
    THEN Some(headers[CHOOSE n \in DOMAIN headers : n \in SignatureNames])
    ELSE None(<< >>)

\* The check of the header left out.
NeverNoSignature(sig) == FALSE

\* !signature
NoSignature(sig) == ~sig.defined \/ sig.v = << >>

\* JSON.parse(body); ok = FALSE is a SyntaxError with the message.
JsonParse(text) ==
    CASE text = << "{", "}" >> ->
            [ok |-> TRUE, value |-> JObject(FALSE, "", ""), message |-> ""]
      [] text = << "7" >> -> [ok |-> TRUE, value |-> JNumber(7), message |-> ""]
      [] text = << >> ->
            [ok |-> FALSE, value |-> JNull, message |-> "Unexpected end of JSON input"]
      [] OTHER ->
            [ok |-> FALSE, value |-> JNull, message |-> "Unexpected token in JSON"]

\* What request.text() rejects with: an Error with a message, or a value
\* that is no Error.
Rejections ==
    { [isError |-> TRUE, message |-> "Read error"],
      [isError |-> TRUE, message |-> ""],
      [isError |-> FALSE, message |-> "closed"] }

\* Every error reported as unknown.
MessageUnknown(error) == "Unknown error"

\* error instanceof Error ? error.message : "Unknown error"
MessageOf(error) == IF error.isError THEN error.message ELSE "Unknown error"

\* A result that says why it is not valid is replaced by one that does not.
InvalidWithoutError(message) ==
    [isValid |-> FALSE, hasData |-> FALSE, data |-> JNull, hasError |-> FALSE, error |-> ""]

\* The results of verifyRequest.
Invalid(message) ==
    [isValid |-> FALSE, hasData |-> FALSE, data |-> JNull,
     hasError |-> TRUE, error |-> message]

Valid(data) ==
    [isValid |-> TRUE, hasData |-> TRUE, data |-> data, hasError |-> FALSE, error |-> ""]

NoResult ==
    [isValid |-> FALSE, hasData |-> FALSE, data |-> JNull, hasError |-> FALSE, error |-> ""]

\* The check of the signature left out.
NeverRejected(isValid) == FALSE

\* !isValid
Rejected(isValid) == ~isValid

\* The string payload verifyRequest gives to verify.
StringPayload(text) == [kind |-> "string", data |-> text]

\* A call of request.text(): pending, read (with the text) or failed
\* (with what it rejected with).
BodyRead(state, text, error) == [state |-> state, text |-> text, error |-> error]

NoRejection == [isError |-> FALSE, message |-> ""]

\* The secrets, the body texts, the buffers and the signatures of the model.
Secrets == {"test-webhook-secret", "wrong-secret"}

Texts == { << >>, << "{", "}" >>, << "7" >>, << "{" >>, << "uFFFD" >> }

Buffers == { << "{", "}" >>, << "xFF" >>, << "xEF", "xBF", "xBD" >> }

Payloads ==
    { [kind |-> "string", data |-> t] : t \in Texts } \cup
    { [kind |-> "buffer", data |-> b] : b \in Buffers }

\* The character at position i of s changed to c.
Changed(s, i, c) == [s EXCEPT ![i] = c]

\* The signatures a sender may give: the hexadecimal digest of a text under
\* a secret, and variations of it.
SignaturesOf(hex) ==
    { hex,
      [i \in 1 .. Len(hex) |-> UpperCase(hex[i])],
      Changed(hex, 1, IF hex[1] = "0" THEN "1" ELSE "0"),
      Changed(hex, Len(hex), IF hex[Len(hex)] = "f" THEN "e" ELSE "f"),
      hex \o << "z" >>, hex \o << "0" >>, hex \o << "z", "z" >>,
      hex \o << "0", "0" >>,
      SubSeq(hex, 1, Len(hex) - 2), SubSeq(hex, 1, Len(hex) - 1) }

Signatures ==
    UNION { SignaturesOf(ToHex(Hmac(k, t))) : k \in Secrets, t \in Texts }
    \cup { ToHex(HmacBytes(k, b)) : k \in Secrets, b \in Buffers }
    \cup { << >>, << "z", "z" >>, << "n", "o", "t", "-", "h", "e", "x" >> }

\* The header lists of an incoming request.
IncomingHeaders ==
    { NoHeaders, Header("content-type", << "j" >>) } \cup
    { Header(n, << >>) : n \in SignatureNames } \cup
    { Header(n, sig) : n \in SignatureNames, sig \in Signatures }

(***************************************************************************)
(* State.                                                                  *)
(***************************************************************************)
VARIABLES
    apiKey,          \* this.apiKey
    baseURL,         \* this.baseURL
    maxRetries,      \* this.maxRetries
    timeout,         \* this.timeout
    pc,              \* "idle", "fetching", "sleeping", "resolved", "rejected"
    attempt,         \* the loop variable of request
    lastError,       \* the local variable lastError
    signalDeadline,  \* when the AbortSignal of requestOptions fires
    now,             \* the clock
    attemptStart,    \* when the attempt in flight called fetch
    delay,           \* the delay given to setTimeout for the sleep in progress
    result,          \* what the call resolved with
    thrown,          \* what the call rejected with
    calls,           \* number of fetch calls made so far
    slept,           \* total time spent in backoff sleeps so far
    last,            \* what the transport did to the latest attempt
    previous,        \* what the transport did to the attempts before it
    wire,            \* the requests given to fetch so far
    constructed,     \* the options and the environment the constructor saw
    requested,       \* the arguments of the call of request
    url,             \* the local variable url of request
    requestOptions,  \* the local variable requestOptions of request
    generated,       \* the latest call of CaretAPIError.generate
    secret,          \* this.secret of the WebhookVerifier
    vpc,             \* "new", "idle", "reading", "done", "failed"
    incoming,        \* the request given to verifyRequest
    signature,       \* the local variable signature of verifyRequest
    outcome,         \* what verifyRequest resolved with
    bodyReads,       \* number of calls of request.text()
    parses,          \* number of calls of JSON.parse
    verified,        \* the latest call of verify
    notes,           \* the call of notes.get
    inflight,        \* the locals of each of the concurrent calls of request
    observed         \* the locals the concurrent calls have had

\* The state of the WebhookVerifier.
webhook ==
    << secret, vpc, incoming, signature, outcome, bodyReads, parses, verified >>

\* The state of the request engine.
engine ==
    << apiKey, baseURL, maxRetries, timeout, pc, attempt, lastError,
       signalDeadline, now, attemptStart, delay, result, thrown, calls, slept,
       last, previous, wire, constructed, requested, url, requestOptions >>

vars == << engine, generated, webhook, notes, inflight, observed >>

\* What lies outside the request engine.
others == << generated, webhook, notes, inflight, observed >>

\* What request builds before its loop.
sent == << requested, url, requestOptions >>

config == << apiKey, baseURL, maxRetries, timeout, constructed >>

\* What the transport did to attempt a after elapsed ms: kind is "response",
\* "threw" or "aborted".
Outcome(kind, a, response, elapsed) ==
    [kind |-> kind, attempt |-> a, status |-> response.status,
     headers |-> HeadersForEach(response.headers), body |-> response.body,
     elapsed |-> elapsed]

NoResponse == Response(0, NoHeaders, "")

\* The kind of outcome o: "2xx", "429" or "other" for a response.
Tag(o) ==
    IF o.kind # "response" THEN o.kind
    ELSE IF o.status >= 200 /\ o.status <= 299 THEN "2xx"
    ELSE IF o.status = 429 THEN "429"
    ELSE "other"

NoOutcome == Outcome("none", 0 - 1, NoResponse, 0)

\* A call of notes.get(id): pc is "none", "called", "returned" or "threw".
NotesCall(state, id, value, error) ==
    [pc |-> state, id |-> id, value |-> value, error |-> error]

NoNotesCall == NotesCall("none", "", JUndefined, Undefined)

\* The options of the constructor.
Options(key, base, t, retries) ==
    [apiKey |-> key, baseURL |-> base, timeout |-> t, maxRetries |-> retries]

NotConstructed ==
    [options |-> Options(None(""), None(<< >>), None(0), None(0)), env |-> None("")]

\* No call of request is in progress.
\* The calls of request that run at the same time on one client.
CallIds == {"first", "second"}

\* The locals of a call of request (attempt, lastError, what the call waits
\* for and what it settled with), the fetches it made, the time it slept and
\* the events it has had.
Locals(p, a, e, d, r, t, n, s, h) ==
    [pc |-> p, attempt |-> a, lastError |-> e, delay |-> d, result |-> r,
     thrown |-> t, calls |-> n, slept |-> s, hist |-> h]

NotCalled == Locals("idle", 0, Undefined, Num(0), JNull, Undefined, 0, 0, << >>)

NoCall ==
    /\ attempt = 0
    /\ lastError = Undefined
    /\ signalDeadline = 0
    /\ now = 0
    /\ attemptStart = 0
    /\ delay = Num(0)
    /\ result = JNull
    /\ thrown = Undefined
    /\ calls = 0
    /\ slept = 0
    /\ last = NoOutcome
    /\ previous = {}
    /\ wire = {}
    /\ notes = NoNotesCall
    /\ inflight = [id \in CallIds |-> NotCalled]
    /\ observed = {}
    /\ requested = NoArguments
    /\ url = InvalidURL
    /\ requestOptions = NoRequestOptions

\* No client exists.
NoClient ==
    /\ apiKey = ""
    /\ baseURL = << >>
    /\ maxRetries = 0
    /\ timeout = 0
    /\ constructed = NotConstructed
    /\ pc = "new"
    /\ NoCall

NoneGenerated ==
    generated = [called |-> FALSE, status |-> 0, error |-> Undefined,
                 requestId |-> None(<< >>)]

\* No verifier exists.
NoVerifier ==
    /\ secret = ""
    /\ vpc = "new"
    /\ incoming = NoHeaders
    /\ signature = None(<< >>)
    /\ outcome = NoResult
    /\ bodyReads = << >>
    /\ parses = 0
    /\ verified = NoVerifyCall

\* The state after construction: new Caret({apiKey, timeout, maxRetries}).
Init ==
    /\ apiKey = "sk-caret"
    /\ baseURL = DefaultBaseURL
    /\ maxRetries \in MaxRetriesValues
    /\ timeout \in Timeouts
    /\ constructed =
          [options |-> Options(Some(apiKey), None(<< >>), Some(timeout), Some(maxRetries)),
           env |-> None("")]
    /\ pc = "idle"
    /\ NoCall
    /\ NoneGenerated
    /\ NoVerifier

\* The outcomes of the attempts settled so far.
Earlier == IF last.kind = "none" THEN previous ELSE previous \cup {Tag(last)}

(***************************************************************************)
(* The loop of request.                                                    *)
(***************************************************************************)
\* The head of the for loop with loop variable a at time t: the next fetch is
\* called, or the loop is left and lastError (its new value is e) is thrown.
LoopHead(a, t, e) ==
    /\ attempt' = a
    /\ IF LoopCondition(a, maxRetries)
       THEN /\ pc' = "fetching"
            /\ calls' = calls + 1
            /\ attemptStart' = t
            /\ thrown' = thrown
       ELSE /\ pc' = "rejected"
            /\ thrown' = e
            /\ UNCHANGED << calls, attemptStart >>

\* The promise of the sleep is never resolved.
SleepUnresolved(d) ==
    /\ pc' = "hung"
    /\ delay' = d
    /\ UNCHANGED << attempt, calls, attemptStart, thrown >>

\* await new Promise((resolve) => setTimeout(resolve, d))
Sleep(d) ==
    /\ pc' = "sleeping"
    /\ delay' = d
    /\ UNCHANGED << attempt, calls, attemptStart, thrown >>

\* The body is sent with the first fetch only.
WireBodyOnce(u, o) ==
    [href |-> Href(u), search |-> u.search, method |-> o.method,
     headers |-> FetchHeaders(o.headers),
     body |-> IF calls = 0 THEN o.body ELSE NoBody]

\* fetch(url.toString(), requestOptions): the request that is sent.
Wire(u, o) ==
    [href |-> Href(u), search |-> u.search, method |-> o.method,
     headers |-> FetchHeaders(o.headers), body |-> o.body]

\* The request of the call is given to fetch where the step calls fetch.
Transmit(u, o) ==
    wire' = IF pc' = "fetching" THEN wire \cup {Wire(u, o)} ELSE wire

\* The first error kept instead of the latest.
RememberFirst(old, error) == IF old.class = "undefined" THEN error ELSE old

\* lastError = error as Error
Remember(old, error) == error

\* The catch block of an attempt that raised error, at time t.
Catch(error, t) ==
    /\ lastError' = Remember(lastError, error)
    /\ IF InstanceOfCaretAPIError(error)
       THEN IF error.status = 429 /\ AttemptsRemain(attempt, maxRetries)
            THEN Sleep(RateLimitDelay(error.headers, attempt))
            ELSE /\ pc' = "rejected"
                 /\ thrown' = error
                 /\ UNCHANGED << attempt, calls, attemptStart, delay >>
       ELSE IF AttemptsRemain(attempt, maxRetries)
            THEN Sleep(Backoff(attempt))
            ELSE /\ LoopHead(NextAttempt(attempt), t, lastError')
                 /\ UNCHANGED delay

\* The value request returns for a parsed success body.
Returns(value) == value

(***************************************************************************)
(* Actions.                                                                *)
(***************************************************************************)
\* request(method, path, options) up to its first fetch; new URL may throw
\* a TypeError, and the call rejects with it.
Request(method, path, options) ==
    /\ pc = "idle"
    /\ requested' = Arguments(method, path, options)
    /\ url' = BuildURL(baseURL, path, options.params)
    /\ IF url'.valid
       THEN /\ requestOptions' = RequestOptions(method, apiKey, options)
            /\ signalDeadline' = now + timeout
            /\ LoopHead(0, now, lastError)
       ELSE /\ pc' = "rejected"
            /\ thrown' = PlainError("TypeError", 0 - 1)
            /\ UNCHANGED << requestOptions, signalDeadline, attempt, calls, attemptStart >>
    /\ Transmit(url', requestOptions')
    /\ UNCHANGED << others, config, lastError, now, delay, result, slept, last, previous >>

\* The fetch of the attempt resolves to an ok response after d ms.
FetchOk(response, d) ==
    /\ pc = "fetching"
    /\ now + d < signalDeadline
    /\ Ok(response)
    /\ now' = now + d
    /\ last' = Outcome("response", attempt, response, now' - attemptStart)
    /\ previous' = Earlier
    /\ LET parsed == ResponseJson(response.body)
       IN  IF parsed.ok
           THEN /\ pc' = "resolved"
                /\ result' = Returns(parsed.value)
                /\ UNCHANGED << attempt, lastError, calls, attemptStart, delay, thrown >>
           ELSE /\ Catch(PlainError("SyntaxError", attempt), now')
                /\ UNCHANGED result
    /\ Transmit(url, requestOptions)
    /\ UNCHANGED << others, sent, config, signalDeadline, slept >>

\* The fetch of the attempt resolves to a non-ok response after d ms.
FetchNotOk(response, d) ==
    /\ pc = "fetching"
    /\ now + d < signalDeadline
    /\ ~Ok(response)
    /\ now' = now + d
    /\ last' = Outcome("response", attempt, response, now' - attemptStart)
    /\ previous' = Earlier
    /\ Catch(NotOkThrows(response, attempt), now')
    /\ Transmit(url, requestOptions)
    /\ UNCHANGED << others, sent, config, signalDeadline, result, slept >>

\* The fetch of the attempt rejects after d ms: the transport failed.
FetchThrows(d) ==
    /\ pc = "fetching"
    /\ now + d < signalDeadline
    /\ now' = now + d
    /\ last' = Outcome("threw", attempt, NoResponse, now' - attemptStart)
    /\ Catch(PlainError("Error", attempt), now')
    /\ previous' = Earlier
    /\ Transmit(url, requestOptions)
    /\ UNCHANGED << others, sent, config, signalDeadline, result, slept >>

\* The signal of requestOptions fires (or has fired before fetch was called):
\* the fetch of the attempt rejects with a TimeoutError.
FetchAborted ==
    /\ pc = "fetching"
    /\ now' = IF now < signalDeadline THEN signalDeadline ELSE now
    /\ last' = Outcome("aborted", attempt, NoResponse, now' - attemptStart)
    /\ previous' = Earlier
    /\ Catch(PlainError("TimeoutError", attempt), now')
    /\ Transmit(url, requestOptions)
    /\ UNCHANGED << others, sent, config, signalDeadline, result, slept >>

\* The timer of the backoff fires; the loop goes to its next iteration.
SleepElapses ==
    /\ pc = "sleeping"
    /\ now' = now + TimerDelay(delay)
    /\ slept' = slept + TimerDelay(delay)
    /\ delay' = Num(0)
    /\ LoopHead(NextAttempt(attempt), now', lastError)
    /\ Transmit(url, requestOptions)
    /\ UNCHANGED << others, sent, config, lastError, signalDeadline, result, last, previous >>

\* The call the retry loop is followed for.
Calls == { Arguments("GET", << "/", "notes" >>, NoOptions) }

Next ==
    \/ \E c \in Calls : Request(c.method, c.path, c.options)
    \/ \E response \in Responses, d \in Durations : FetchOk(response, d)
    \/ \E response \in Responses, d \in Durations : FetchNotOk(response, d)
    \/ \E d \in Durations : FetchThrows(d)
    \/ FetchAborted
    \/ SleepElapses

Spec == Init /\ [][Next]_vars

TypeOK ==
    /\ maxRetries \in MaxRetriesValues
    /\ timeout \in Timeouts
    /\ pc \in {"new", "failed", "idle", "fetching", "sleeping", "resolved", "rejected"}
    /\ attempt \in Nat
    /\ calls \in Nat
    /\ now \in Nat
    /\ slept \in Nat
    /\ delay.nan \in BOOLEAN
    /\ previous \subseteq {"2xx", "429", "other", "threw", "aborted"}


(***************************************************************************)
(* Properties of the retry loop.                                           *)
(***************************************************************************)
(* The constructor of Caret called on its own.                             *)
(***************************************************************************)
\* options.apiKey and process.env.CARET_API_KEY: absent, empty or a key.
ApiKeyOptions == { None(""), Some(""), Some("sk-options") }

Environments == { None(""), Some(""), Some("sk-env") }

\* The other options: absent or any value of their type.
BaseURLOptions ==
    { None(<< >>), Some(<< "https:", "/", "/", "custom.api.com", "/", "v2" >>) }

TimeoutOptions == { None(0), Some(0), Some(5000) }

MaxRetriesOptions == { None(0), Some(0 - 1), Some(0), Some(5) }

ConstructorOptions ==
    { Options(key, base, t, retries) :
        key \in ApiKeyOptions, base \in BaseURLOptions,
        t \in TimeoutOptions, retries \in MaxRetriesOptions }

\* new Caret(options) with CARET_API_KEY as in env.
Construct(options, env) ==
    /\ pc = "new"
    /\ constructed' = [options |-> options, env |-> env]
    /\ LET key == ResolveApiKey(options, env)
       IN  IF MissingApiKey(key)
           THEN /\ pc' = "failed"
                /\ thrown' = ErrorValue("Error", 0, JNull, ApiKeyRequired, NoHeaders, 0 - 1)
                /\ UNCHANGED << apiKey, baseURL, timeout, maxRetries >>
           ELSE /\ pc' = "idle"
                /\ apiKey' = key
                /\ baseURL' = Coalesce(options.baseURL, DefaultBaseURL)
                /\ timeout' = Coalesce(options.timeout, DefaultTimeout)
                /\ maxRetries' = Coalesce(options.maxRetries, DefaultMaxRetries)
                /\ UNCHANGED thrown
    /\ UNCHANGED << attempt, lastError, signalDeadline, now, attemptStart, delay,
                    result, calls, slept, last, previous, wire, sent, others >>

InitConstruct == NoClient /\ NoneGenerated /\ NoVerifier

NextConstruct ==
    \E options \in ConstructorOptions, env \in Environments : Construct(options, env)

SpecConstruct == InitConstruct /\ [][NextConstruct]_vars

(***************************************************************************)
(* What request builds, for every base URL, method, path and options.      *)
(***************************************************************************)
MaxSeparators == 3

\* n separators.
Slashes(n) == [i \in 1 .. n |-> "/"]

\* this.baseURL: with and without a path, with any number of trailing
\* separators.
BaseURLs ==
    { base \o Slashes(n) :
        base \in { DefaultBaseURL, << "https:", "/", "/", "api.caret.so" >> },
        n \in 0 .. MaxSeparators }

\* path: with any number of leading separators.
Paths ==
    { Slashes(n) \o p :
        n \in 0 .. MaxSeparators,
        p \in { << >>, << "notes" >>, << "notes", "/", "n1" >> } }

Methods == {"GET", "POST", "PATCH", "PUT", "DELETE"}

\* options.body: absent or any JSON value.
BodyValues ==
    { JUndefined, JNull, JNumber(0), JNumber(7), JBool(FALSE), JBool(TRUE),
      JString(""), JString("text"), JObject(FALSE, "", ""), JObject(TRUE, "hi", "") }

\* options.params and options.headers.
ParamLists ==
    { << >>,
      << << "limit", JNumber(10) >>, << "cursor", JUndefined >> >>,
      << << "cursor", JNull >>, << "limit", JNumber(0) >>, << "q", JString("") >> >>,
      << << "flag", JBool(FALSE) >>, << "filter", JObject(FALSE, "", "") >> >>,
      << << "tag", JString("b") >>, << "2", JString("c") >>, << "1", JString("a") >> >> }

HeaderLists == { [n \in {} |-> ""], [n \in {"X-Custom"} |-> "custom"] }

RequestInputs ==
    { [params |-> p, headers |-> h, body |-> v] :
        p \in ParamLists, h \in HeaderLists, v \in BodyValues }

\* The state after construction: new Caret({apiKey, baseURL}).
InitBuild ==
    /\ apiKey = "sk-caret"
    /\ baseURL \in BaseURLs
    /\ maxRetries = DefaultMaxRetries
    /\ timeout = DefaultTimeout
    /\ constructed =
          [options |-> Options(Some(apiKey), Some(baseURL), None(0), None(0)),
           env |-> None("")]
    /\ pc = "idle"
    /\ NoCall
    /\ NoneGenerated
    /\ NoVerifier

NextBuild ==
    \E method \in Methods, path \in Paths, options \in RequestInputs :
        Request(method, path, options)

SpecBuild == InitBuild /\ [][NextBuild]_vars

(***************************************************************************)
(* notes.get(id) (resources/notes.ts) on top of the request engine.        *)
(***************************************************************************)
NoteIds == {"n1"}

\* Every API error taken for a missing note.
InstanceOfAnyAPIError(error) == error.class \in APIErrorClasses

\* error instanceof NotFoundError
InstanceOfNotFoundError(error) == error.class = "NotFoundError"

\* response.note: a TypeError when the response is null, undefined when it
\* has no such property.
NoteOf(response) ==
    IF response.type = "null" THEN [threw |-> TRUE, value |-> JUndefined]
    ELSE [threw |-> FALSE, value |-> JUndefined]

\* notes.get(id) is called.
NotesGet(id) ==
    /\ notes.pc = "none"
    /\ pc = "idle"
    /\ notes' = NotesCall("called", id, JUndefined, Undefined)
    /\ UNCHANGED << engine, generated, webhook, inflight, observed >>

\* this._client.get(`/notes/${id}`)
NotesRequest ==
    /\ notes.pc = "called"
    /\ Request("GET", << "/", "notes", "/", notes.id >>, NoOptions)

\* The await of notes.get settles: the rest of the try block, or the catch.
NotesSettles ==
    /\ notes.pc = "called"
    /\ pc \in {"resolved", "rejected"}
    /\ notes' =
          IF pc = "resolved"
          THEN IF NoteOf(result).threw
               THEN NotesCall("threw", notes.id, JUndefined, PlainError("TypeError", 0 - 1))
               ELSE NotesCall("returned", notes.id, NoteOf(result).value, Undefined)
          ELSE IF InstanceOfNotFoundError(thrown)
               THEN NotesCall("returned", notes.id, JNull, Undefined)
               ELSE NotesCall("threw", notes.id, JUndefined, thrown)
    /\ UNCHANGED << engine, generated, webhook, inflight, observed >>

NextNotes ==
    \/ \E id \in NoteIds : NotesGet(id)
    \/ NotesRequest
    \/ \E response \in Responses, d \in Durations : FetchOk(response, d)
    \/ \E response \in Responses, d \in Durations : FetchNotOk(response, d)
    \/ \E d \in Durations : FetchThrows(d)
    \/ FetchAborted
    \/ SleepElapses
    \/ NotesSettles

SpecNotes == Init /\ [][NextNotes]_vars

(***************************************************************************)
(* What the attempts of a call send: the retry loop for calls with headers, *)
(* parameters and a body.                                                  *)
(***************************************************************************)
\* options.headers: none, one of another name, one with the key of a
\* default, and ones whose key differs from that of a default in case only.
SendHeaderLists ==
    { [n \in {} |-> ""],
      [n \in {"X-Custom"} |-> "custom"],
      [n \in {"Content-Type"} |-> "text/plain"],
      [n \in {"content-type"} |-> "text/plain"],
      [n \in {"authorization"} |-> "Bearer other"] }

SendCalls ==
    { Arguments(method, << "/", "notes" >>, [params |-> p, headers |-> h, body |-> v]) :
        method \in {"GET", "POST"},
        p \in { << >>, << << "limit", JNumber(10) >> >> },
        h \in SendHeaderLists,
        v \in { JUndefined, JObject(TRUE, "hi", "") } }

\* What the transport answers: success, success without content, rate
\* limit, server error.
SendResponses ==
    { Response(200, NoHeaders, "{}"), Response(204, NoHeaders, ""),
      Response(429, NoHeaders, "{}"), Response(500, NoHeaders, "{}") }

InitSend ==
    /\ apiKey = "sk-caret"
    /\ baseURL = DefaultBaseURL
    /\ maxRetries \in MaxRetriesValues
    /\ timeout = DefaultTimeout
    /\ constructed =
          [options |-> Options(Some(apiKey), None(<< >>), None(0), Some(maxRetries)),
           env |-> None("")]
    /\ pc = "idle"
    /\ NoCall
    /\ NoneGenerated
    /\ NoVerifier

NextSend ==
    \/ \E c \in SendCalls : Request(c.method, c.path, c.options)
    \/ \E response \in SendResponses : FetchOk(response, 0)
    \/ \E response \in SendResponses : FetchNotOk(response, 0)
    \/ FetchThrows(0)
    \/ FetchAborted
    \/ SleepElapses

SpecSend == InitSend /\ [][NextSend]_vars

\* The fetch of the attempt in flight settles: it resolves, rejects or is
\* aborted by the signal.
Settles ==
    \/ \E response \in SendResponses : FetchOk(response, 0)
    \/ \E response \in SendResponses : FetchNotOk(response, 0)
    \/ FetchThrows(0)
    \/ FetchAborted

\* Every fetch settles (the signal aborts it at the latest) and every timer
\* fires.
Fairness == WF_vars(Settles) /\ WF_vars(SleepElapses)

SpecLive == SpecSend /\ Fairness

(***************************************************************************)
(* Calls of request that run at the same time on one client: each has the  *)
(* locals of its own invocation; this.maxRetries is read by all.           *)
(***************************************************************************)
\* The head of the for loop of a call with loop variable a; e is thrown when
\* the loop is left.
AtLoopHead(c, a, e) ==
    IF LoopCondition(a, maxRetries)
    THEN [c EXCEPT !.attempt = a, !.pc = "fetching", !.calls = @ + 1]
    ELSE [c EXCEPT !.attempt = a, !.pc = "rejected", !.thrown = e]

\* await new Promise((resolve) => setTimeout(resolve, d))
Asleep(c, d) == [c EXCEPT !.pc = "sleeping", !.delay = d]

\* The catch block of the attempt of a call.
Caught(c, error) ==
    LET k == [c EXCEPT !.lastError = Remember(c.lastError, error)]
    IN  IF InstanceOfCaretAPIError(error)
        THEN IF error.status = 429 /\ AttemptsRemain(c.attempt, maxRetries)
             THEN Asleep(k, RateLimitDelay(error.headers, c.attempt))
             ELSE [k EXCEPT !.pc = "rejected", !.thrown = error]
        ELSE IF AttemptsRemain(c.attempt, maxRetries)
             THEN Asleep(k, Backoff(c.attempt))
             ELSE AtLoopHead(k, NextAttempt(c.attempt), k.lastError)

\* The try block of the attempt of a call whose fetch resolved.
Resolved(c, response) ==
    LET parsed == ResponseJson(response.body)
    IN  IF ~Ok(response) THEN Caught(c, NotOkThrows(response, c.attempt))
        ELSE IF parsed.ok
        THEN [c EXCEPT !.pc = "resolved", !.result = Returns(parsed.value)]
        ELSE Caught(c, PlainError("SyntaxError", c.attempt))

\* The timer of the backoff of a call fires.
Woken(c) ==
    AtLoopHead([c EXCEPT !.slept = @ + TimerDelay(c.delay), !.delay = Num(0)],
               NextAttempt(c.attempt), c.lastError)

\* An event of a call: it was called, its fetch resolved to a response or
\* rejected, or its timer fired.
Event(kind, response) == [kind |-> kind, response |-> response]

After(c, event) == [c EXCEPT !.hist = Append(@, event)]

\* The loop variable is a field of the client, written by every call.
SharedAttempt(all, id, next) ==
    [c \in DOMAIN all |->
        IF c = id THEN next ELSE [all[c] EXCEPT !.attempt = next.attempt]]

\* let lastError, let attempt: the step of a call writes the locals of its
\* own invocation.
Own(all, id, next) == [all EXCEPT ![id] = next]

\* A step of call id that leaves it with the locals next.
Step(id, next) ==
    /\ inflight' = Own(inflight, id, next)
    /\ observed' = observed \cup { inflight'[c] : c \in CallIds }
    /\ UNCHANGED << engine, generated, webhook, notes >>

\* The responses given to the concurrent calls.
ConcurrentResponses ==
    { Response(200, NoHeaders, "{}"), Response(429, NoHeaders, "{}"),
      Response(429, Header("retry-after", << "2" >>), "{}"),
      Response(500, NoHeaders, "{}") }

\* request(...) is called: the call runs up to its first fetch.
ConcurrentRequest(id) ==
    /\ inflight[id].pc = "idle"
    /\ Step(id, After(AtLoopHead(inflight[id], 0, inflight[id].lastError),
                      Event("called", NoResponse)))

\* The fetch of a call resolves.
ConcurrentFetchResolves(id, response) ==
    /\ inflight[id].pc = "fetching"
    /\ Step(id, After(Resolved(inflight[id], response), Event("response", response)))

\* The fetch of a call rejects.
ConcurrentFetchRejects(id) ==
    /\ inflight[id].pc = "fetching"
    /\ Step(id, After(Caught(inflight[id], PlainError("Error", inflight[id].attempt)),
                      Event("threw", NoResponse)))

\* The timer of a call fires.
ConcurrentSleepElapses(id) ==
    /\ inflight[id].pc = "sleeping"
    /\ Step(id, After(Woken(inflight[id]), Event("timer", NoResponse)))

NextConcurrent ==
    \/ \E id \in CallIds : ConcurrentRequest(id)
    \/ \E id \in CallIds, response \in ConcurrentResponses :
          ConcurrentFetchResolves(id, response)
    \/ \E id \in CallIds : ConcurrentFetchRejects(id)
    \/ \E id \in CallIds : ConcurrentSleepElapses(id)

SpecConcurrent == InitSend /\ [][NextConcurrent]_vars

(***************************************************************************)
(* CaretAPIError.generate called on its own.                               *)
(***************************************************************************)
\* The status codes generate is called with: any number.
StatusCodes == {0} \cup (100 .. 599)

\* The error bodies generate is called with.
ErrorBodies == { JNull, JObject(FALSE, "", ""), JObject(TRUE, "Rate limited", "") }

\* The header lists generate is called with.
ErrorHeaders ==
    { NoHeaders, Header("content-type", << "j" >>) } \cup
    { Header(n, << "r", "1" >>) :
        n \in {"x-request-id", "X-Request-ID", "X-Request-Id", "X-REQUEST-ID"} }

\* this.requestId = headers['x-request-id'] || headers['X-Request-ID']
RequestId(headers) ==
    IF "x-request-id" \in DOMAIN headers /\ headers["x-request-id"] # << >>
    THEN Some(headers["x-request-id"])
    ELSE IF "X-Request-ID" \in DOMAIN headers THEN Some(headers["X-Request-ID"])
    ELSE None(<< >>)

\* One call is followed.
GenerateError(status, data, message, headers) ==
    /\ ~generated.called
    /\ generated' = [called |-> TRUE, status |-> status,
                     error |-> Generate(status, data, message, headers, 0 - 1),
                     requestId |-> RequestId(headers)]
    /\ UNCHANGED << engine, notes, inflight, observed, webhook >>

InitErrors == NoClient /\ NoneGenerated /\ NoVerifier

NextErrors ==
    \E status \in StatusCodes, data \in ErrorBodies, headers \in ErrorHeaders :
        GenerateError(status, data, "Test error", headers)

SpecErrors == InitErrors /\ [][NextErrors]_vars

(***************************************************************************)
(* The WebhookVerifier: one call of verify or of verifyRequest.            *)
(***************************************************************************)
\* The state after construction: new WebhookVerifier(secret).
InitWebhook ==
    /\ NoClient
    /\ NoneGenerated
    /\ secret \in Secrets
    /\ vpc = "idle"
    /\ incoming = NoHeaders
    /\ signature = None(<< >>)
    /\ outcome = NoResult
    /\ bodyReads = << >>
    /\ parses = 0
    /\ verified = NoVerifyCall

\* verify(payload, sig) called by the application.
CallVerify(payload, sig) ==
    /\ vpc = "idle"
    /\ verified' = VerifyCall(payload, sig, Verify(secret, payload, sig))
    /\ vpc' = "done"
    /\ UNCHANGED << engine, notes, inflight, observed, generated, secret, incoming, signature, outcome,
                    bodyReads, parses >>

\* verifyRequest(request) up to its await of request.text().
VerifyRequest(headers) ==
    /\ vpc = "idle"
    /\ incoming' = headers
    /\ signature' = HeadersGet(headers)
    /\ IF NoSignature(signature')
       THEN /\ outcome' = Invalid("Missing X-Caret-Signature header")
            /\ vpc' = "done"
            /\ UNCHANGED bodyReads
       ELSE /\ bodyReads' = Append(bodyReads, BodyRead("pending", << >>, NoRejection))
            /\ vpc' = "reading"
            /\ UNCHANGED outcome
    /\ UNCHANGED << engine, notes, inflight, observed, generated, secret, parses, verified >>

\* request.text() resolves to text: the rest of the try block.
TextResolves(text) ==
    /\ vpc = "reading"
    /\ bodyReads' = [bodyReads EXCEPT ![Len(bodyReads)] = BodyRead("read", text, NoRejection)]
    /\ LET isValid == Verify(secret, StringPayload(text), signature.v)
           parsed == JsonParse(text)
       IN  /\ verified' = VerifyCall(StringPayload(text), signature.v, isValid)
           /\ IF Rejected(isValid)
              THEN /\ outcome' = Invalid("Invalid signature")
                   /\ UNCHANGED parses
              ELSE /\ parses' = parses + 1
                   /\ outcome' =
                         IF parsed.ok THEN Valid(parsed.value)
                         ELSE Invalid(MessageOf([isError |-> TRUE, message |-> parsed.message]))
    /\ vpc' = "done"
    /\ UNCHANGED << engine, notes, inflight, observed, generated, secret, incoming, signature >>

\* request.text() rejects with error: the catch block.
TextRejects(error) ==
    /\ vpc = "reading"
    /\ bodyReads' = [bodyReads EXCEPT ![Len(bodyReads)] = BodyRead("failed", << >>, error)]
    /\ outcome' = Invalid(MessageOf(error))
    /\ vpc' = "done"
    /\ UNCHANGED << engine, notes, inflight, observed, generated, secret, incoming, signature, parses, verified >>

NextWebhook ==
    \/ \E payload \in Payloads, sig \in Signatures : CallVerify(payload, sig)
    \/ \E headers \in IncomingHeaders : VerifyRequest(headers)
    \/ \E text \in Texts : TextResolves(text)
    \/ \E error \in Rejections : TextRejects(error)

SpecWebhook == InitWebhook /\ [][NextWebhook]_vars

(***************************************************************************)
OkStatus(status) == status >= 200 /\ status <= 299

Settled == pc \in {"resolved", "rejected"}

\* The outcomes of all attempts settled so far, the latest included.
Received == Earlier

EmptyObject == JObject(FALSE, "", "")

\* C1: with maxRetries = n >= 0 a call makes at most n+1 fetch calls, and the
\* attempts are numbered 0..n: the k-th fetch call is attempt k-1.
C1_AtMostMaxRetriesPlusOneAttempts ==
    maxRetries >= 0 =>
        /\ calls <= maxRetries + 1
        /\ pc \in {"fetching", "sleeping"} =>
              (attempt \in 0 .. maxRetries /\ calls = attempt + 1)
        /\ last.kind # "none" => last.attempt \in 0 .. maxRetries

\* A call used all its n+1 attempts on a mix of rate-limit responses and
\* transport failures.
C1_Witness ==
    /\ maxRetries >= 2
    /\ pc = "rejected"
    /\ calls = maxRetries + 1
    /\ {"429", "threw"} \subseteq Received

\* C2: a non-ok response whose status is not 429 ends the call at that attempt:
\* the typed API error of that attempt is thrown, nothing is slept and no
\* further fetch is made.
C2_OtherStatusNeverRetried ==
    (last.kind = "response" /\ ~OkStatus(last.status) /\ last.status # 429) =>
        /\ pc = "rejected"
        /\ InstanceOfCaretAPIError(thrown)
        /\ thrown.status = last.status
        /\ thrown.origin = last.attempt
        /\ calls = last.attempt + 1

\* C3: when every attempt receives HTTP 429, the call makes exactly
\* maxRetries+1 attempts, rejects with the RateLimitError of the last of them
\* and does not sleep after it.
C3_AllRateLimited ==
    (maxRetries >= 0 /\ Received = {"429"}) =>
        /\ Settled => last.attempt = maxRetries
        /\ last.attempt = maxRetries =>
              /\ pc = "rejected"
              /\ calls = maxRetries + 1
              /\ thrown.class = "RateLimitError"
              /\ thrown.origin = maxRetries

\* C4: when attempts 0..k-1 failed with a 429 or a transport failure and
\* attempt k receives a 2xx response with JSON body B, the call resolves with B
\* after exactly k+1 fetch calls.
C4_SucceedsOnAttemptK ==
    ( /\ last.kind = "response"
      /\ OkStatus(last.status)
      /\ ResponseJson(last.body).ok
      /\ previous \subseteq {"429", "threw"} ) =>
        /\ pc = "resolved"
        /\ result = ResponseJson(last.body).value
        /\ calls = last.attempt + 1

\* The third attempt succeeded after a 429 and a transport failure.
C4_Witness ==
    /\ pc = "resolved"
    /\ previous = {"429", "threw"}
    /\ last.attempt = 2
    /\ last.status = 204
    /\ result = JObject(TRUE, "Rate limited", "")

\* The delay the claim C5 gives for a 429 received by attempt a: the seconds
\* of the retry-after header when there is one, 2^a seconds otherwise.
ClaimedRateLimitDelay(headers, a) ==
    IF "retry-after" \in DOMAIN headers
    THEN Times(ParseInt(headers["retry-after"]), 1000)
    ELSE Num((2 ^ a) * 1000)

\* A header value that is a number of seconds.
IsSeconds(v) == v # <<>> /\ \A i \in 1 .. Len(v) : IsDigit(v[i])

\* C5: after a 429 received by attempt a < maxRetries the call sleeps the
\* seconds of the retry-after header when the response has one (a number of
\* seconds), and 2^a seconds otherwise.
C5_RateLimitDelay ==
    ( /\ last.kind = "response"
      /\ last.status = 429
      /\ last.attempt < maxRetries
      /\ attempt = last.attempt
      /\ "retry-after" \in DOMAIN last.headers => IsSeconds(last.headers["retry-after"]) ) =>
        /\ pc = "sleeping"
        /\ delay = ClaimedRateLimitDelay(last.headers, last.attempt)

\* The attempt ended without a response: the transport threw, or the timeout
\* aborted it.
Unclassified(o) == o.kind \in {"threw", "aborted"}

\* C6: after a transport failure of attempt a < maxRetries the call sleeps
\* 2^a seconds and then makes attempt a+1; a call whose attempts all fail so
\* has slept 2^maxRetries - 1 seconds when it rejects, and it rejects without
\* a sleep after the last attempt.
C6_TransportFailureBackoff ==
    /\ (Unclassified(last) /\ last.attempt < maxRetries) =>
          \/ /\ pc = "sleeping"
             /\ attempt = last.attempt
             /\ delay = Num((2 ^ last.attempt) * 1000)
          \/ /\ pc = "fetching"
             /\ attempt = last.attempt + 1
             /\ calls = attempt + 1
    /\ (maxRetries >= 0 /\ Unclassified(last) /\ last.attempt = maxRetries) =>
          (pc = "rejected" /\ delay = Num(0))
    /\ (maxRetries >= 0 /\ Settled /\ Received \subseteq {"threw", "aborted"}) =>
          slept = ((2 ^ maxRetries) - 1) * 1000

\* A call with two retries whose three attempts all failed in the transport.
C6_Witness ==
    /\ maxRetries = 2
    /\ pc = "rejected"
    /\ Received = {"threw"}
    /\ slept = 3000

\* The error the transport raises for an attempt that fails without a response.
TransportError(o) ==
    PlainError(IF o.kind = "aborted" THEN "TimeoutError" ELSE "Error", o.attempt)

\* C7: when attempt number maxRetries fails in the transport (it threw or was
\* aborted), the call rejects with the very error of that attempt, which is no
\* CaretAPIError.
C7_LastUnderlyingErrorPropagated ==
    (maxRetries >= 0 /\ Unclassified(last) /\ last.attempt = maxRetries) =>
        /\ pc = "rejected"
        /\ thrown = TransportError(last)
        /\ ~InstanceOfCaretAPIError(thrown)

\* The last of three attempts threw, after earlier attempts had failed too.
C7_Witness ==
    /\ maxRetries = 2
    /\ pc = "rejected"
    /\ last.kind = "threw"
    /\ last.attempt = 2
    /\ thrown.class = "Error"

\* C8: every attempt that the timeout aborts has had the whole timeout since
\* its fetch was called, also when it follows attempts that failed in the
\* transport and the sleeps after them.
C8_TimeoutPerAttempt ==
    (last.kind = "aborted" /\ previous \subseteq {"threw", "aborted"}) =>
        last.elapsed = timeout

\* C9: a 2xx response whose body is empty or is no JSON makes the call resolve
\* with an empty object.
C9_UnparsableSuccessIsEmptyObject ==
    (last.kind = "response" /\ OkStatus(last.status) /\ ~ResponseJson(last.body).ok) =>
        (pc = "resolved" /\ result = EmptyObject)

\* The error body the claim C10 gives for a non-ok response: the parsed body,
\* or the fallback {message: statusText} when the body is no JSON.
ClaimedErrorBody(o) ==
    IF ResponseJson(o.body).ok THEN ResponseJson(o.body).value
    ELSE JObject(TRUE, ReasonPhrase(o.status), "")

\* C10: every non-ok response is turned into a CaretAPIError with the status,
\* the headers and the error body of the response.
C10_NonOkBecomesAPIError ==
    (last.kind = "response" /\ ~OkStatus(last.status)) =>
        /\ InstanceOfCaretAPIError(lastError)
        /\ lastError.origin = last.attempt
        /\ lastError.status = last.status
        /\ lastError.headers = last.headers
        /\ lastError.error = ClaimedErrorBody(last)

(***************************************************************************)
(* The error taxonomy.                                                     *)
(***************************************************************************)
\* The class the taxonomy gives a status code.
ClaimedErrorClass(status) ==
    IF status \in {400, 401, 403, 404, 409, 422, 429, 500}
    THEN [s \in {400, 401, 403, 404, 409, 422, 429, 500} |->
            CASE s = 400 -> "BadRequestError" [] s = 401 -> "AuthenticationError"
              [] s = 403 -> "PermissionDeniedError" [] s = 404 -> "NotFoundError"
              [] s = 409 -> "ConflictError" [] s = 422 -> "UnprocessableEntityError"
              [] s = 429 -> "RateLimitError" [] s = 500 -> "InternalServerError"][status]
    ELSE "CaretAPIError"

\* C11: CaretAPIError.generate is total in the status code: 400, 401, 403,
\* 404, 409, 422, 429 and 500 give their dedicated class, every other status
\* gives the generic CaretAPIError, and the error produced always has the
\* status it was generated for.
C11_GenerateByStatus ==
    generated.called =>
        /\ generated.error.class = ClaimedErrorClass(generated.status)
        /\ generated.error.class \in APIErrorClasses
        /\ generated.error.status = generated.status

C11_Witness ==
    /\ generated.called
    /\ generated.status = 409
    /\ generated.error.class = "ConflictError"
    /\ generated.error.status = 409

\* The spellings of the name of the request id header.
RequestIdNames == {"x-request-id", "X-Request-ID", "X-Request-Id", "X-REQUEST-ID"}

\* C25: requestId is the value of the x-request-id header of the headers
\* map given to the error, whatever the case of the letters of its name in
\* the map, and undefined when the map has no such header.
C25_RequestIdAnyCase ==
    generated.called =>
        LET headers == generated.error.headers
            named == { n \in DOMAIN headers : n \in RequestIdNames }
        IN  IF named = {}
            THEN ~generated.requestId.defined
            ELSE /\ generated.requestId.defined
                 /\ \E n \in named : generated.requestId.v = headers[n]

(***************************************************************************)
(* Webhook signatures.                                                     *)
(***************************************************************************)
\* The lower-case hexadecimal HMAC of a string payload under the secret.
ExpectedSignature(payload) == ToHex(Hmac(secret, payload.data))

\* verify has been called by the application with a string payload.
VerifyReturned ==
    vpc = "done" /\ verified.called /\ bodyReads = << >> /\ verified.payload.kind = "string"

\* C12: verify(payload, signature) returns true if and only if signature is
\* exactly the lower-case hexadecimal HMAC of payload under the secret
\* (stated for string payloads); a change of one character of the signature
\* or of the payload makes it return false.
C12_VerifyIffExactSignature ==
    VerifyReturned =>
        (verified.returned <=> verified.signature = ExpectedSignature(verified.payload))

\* Every character is a hexadecimal digit and their number is even.
ValidHex(s) == Len(s) % 2 = 0 /\ \A i \in 1 .. Len(s) : HexValue(s[i]) >= 0

\* C13: verify never throws but returns a boolean, and returns false for a
\* signature that is not valid hexadecimal, for one whose decoded length is
\* not the length of the digest, and for the empty string.
C13_VerifyFalseOnMalformedSignature ==
    (vpc = "done" /\ verified.called /\ bodyReads = << >>) =>
        /\ verified.returned \in BOOLEAN
        /\ ( \/ verified.signature = << >>
             \/ ~ValidHex(verified.signature)
             \/ Len(FromHex(verified.signature)) # DigestLen ) => ~verified.returned

\* verifyRequest has resolved.
VerifyRequestResolved == vpc = "done" /\ ~(verified.called /\ bodyReads = << >>)

\* The call of request.text() made by verifyRequest, if any.
TheRead == bodyReads[Len(bodyReads)]

\* C14: verifyRequest never rejects: it resolves to a result, and a result
\* that is not valid carries an error string, which is the message of the
\* underlying error when the body read or the JSON parse failed.
C14_VerifyRequestNeverRejects ==
    /\ vpc # "failed"
    /\ VerifyRequestResolved =>
          /\ outcome.isValid \in BOOLEAN
          /\ ~outcome.isValid => outcome.hasError
          /\ (bodyReads # << >> /\ TheRead.state = "failed" /\ TheRead.error.isError) =>
                (~outcome.isValid /\ outcome.error = TheRead.error.message)
          /\ (bodyReads # << >> /\ TheRead.state = "read" /\ verified.returned
                /\ ~JsonParse(TheRead.text).ok) =>
                (~outcome.isValid /\ outcome.error = JsonParse(TheRead.text).message)

C14_Witness ==
    /\ VerifyRequestResolved
    /\ bodyReads # << >>
    /\ TheRead.state = "failed"
    /\ TheRead.error.message = "Read error"
    /\ outcome = Invalid("Read error")

\* The request has no signature header, whatever the case of the name.
HeaderAbsent(headers) ==
    \A n \in DOMAIN headers :
        n \notin {"x-caret-signature", "X-Caret-Signature", "X-CARET-SIGNATURE"}

\* C15: for a request without a signature header (the name compared in any
\* case) verifyRequest returns the missing-header result and never reads
\* the body; a body is read only after the header check has succeeded.
C15_MissingHeaderBeforeBodyRead ==
    /\ (vpc # "idle" /\ ~verified.called /\ HeaderAbsent(incoming)) =>
          /\ vpc = "done"
          /\ outcome = [isValid |-> FALSE, hasData |-> FALSE, data |-> JNull,
                        hasError |-> TRUE, error |-> "Missing X-Caret-Signature header"]
          /\ bodyReads = << >>
    /\ bodyReads # << >> =>
          (~HeaderAbsent(incoming) /\ signature.defined /\ signature.v # << >>)

C15_Witness ==
    /\ vpc = "done"
    /\ incoming = Header("content-type", << "j" >>)
    /\ outcome.error = "Missing X-Caret-Signature header"
    /\ bodyReads = << >>

\* C16: data is present only in a valid result; a result is valid only if
\* verify returned true for the body text read and the header value
\* received; when verify returns false the result is the invalid-signature
\* result and the body is not parsed.
C16_DataOnlyAfterVerification ==
    VerifyRequestResolved =>
        /\ outcome.hasData => outcome.isValid
        /\ outcome.isValid =>
              /\ bodyReads # << >> /\ TheRead.state = "read"
              /\ verified.called /\ verified.returned
              /\ verified.payload = [kind |-> "string", data |-> TheRead.text]
              /\ verified.signature = incoming[CHOOSE n \in DOMAIN incoming : ~HeaderAbsent(Header(n, << >>))]
        /\ (verified.called /\ ~verified.returned) =>
              /\ outcome = [isValid |-> FALSE, hasData |-> FALSE, data |-> JNull,
                            hasError |-> TRUE, error |-> "Invalid signature"]
              /\ parses = 0

C16_Witness ==
    /\ VerifyRequestResolved
    /\ verified.called
    /\ ~verified.returned
    /\ TheRead.text = << "{", "}" >>
    /\ outcome.error = "Invalid signature"
    /\ parses = 0

\* C17: with a signature that is valid for the body, a body that is not
\* valid JSON gives a result that is not valid, without data and with the
\* non-empty message of the parse failure; a body that is valid JSON gives
\* a valid result whose data is the parsed body, without error.
C17_ValidSignatureThenParse ==
    (VerifyRequestResolved /\ verified.called /\ verified.returned) =>
        LET parsed == JsonParse(TheRead.text)
        IN  IF parsed.ok
            THEN /\ outcome.isValid /\ outcome.hasData /\ ~outcome.hasError
                 /\ outcome.data = parsed.value
            ELSE /\ ~outcome.isValid /\ ~outcome.hasData /\ outcome.hasError
                 /\ outcome.error # ""
                 /\ outcome.error = parsed.message

C17_Witness ==
    /\ VerifyRequestResolved
    /\ verified.returned
    /\ TheRead.text = << "{" >>
    /\ ~outcome.isValid
    /\ outcome.error = "Unexpected token in JSON"

(***************************************************************************)
(* Construction of the client.                                             *)
(***************************************************************************)
\* A source supplies a key when it is set and not empty.
Supplies(source) == source.defined /\ source.v # ""

\* C18: construction fails, with the error saying that the API key is
\* required, exactly when neither options.apiKey nor CARET_API_KEY supplies
\* a non-empty key; otherwise it succeeds with the explicit key when that
\* is supplied and the key of the environment when not, whatever the other
\* options are.
C18_FailsIffNoApiKey ==
    pc # "new" =>
        LET explicit == constructed.options.apiKey
            env == constructed.env
        IN  IF Supplies(explicit) \/ Supplies(env)
            THEN /\ pc # "failed"
                 /\ apiKey = IF Supplies(explicit) THEN explicit.v ELSE env.v
            ELSE /\ pc = "failed"
                 /\ thrown.class = "Error"
                 /\ thrown.message = ApiKeyRequired

(***************************************************************************)
(* The request that is built.                                              *)
(***************************************************************************)
\* request has built its requestOptions.
Built == requested # NoArguments /\ url.valid

\* C19: a GET or DELETE request never carries a body, and a POST, PATCH or
\* PUT request carries the JSON text of the body supplied, whatever value
\* that is: 0, false, the empty string and null included.
C19_BodyByMethod ==
    Built =>
        IF requested.method \in {"GET", "DELETE"}
        THEN ~requestOptions.body.defined
        ELSE requested.options.body.type # "undefined" =>
                /\ requestOptions.body.defined
                /\ requestOptions.body.v = JsonStringify(requested.options.body)

RECURSIVE StripTrailing(_)
StripTrailing(s) ==
    IF s # << >> /\ s[Len(s)] = "/" THEN StripTrailing(SubSeq(s, 1, Len(s) - 1)) ELSE s

RECURSIVE StripLeading(_)
StripLeading(s) == IF s # << >> /\ s[1] = "/" THEN StripLeading(Tail(s)) ELSE s

\* C20: the URL requested is the base URL made to end in exactly one
\* separator, followed by the path without its leading separators, for
\* every number of trailing separators of the base URL and of leading
\* separators of the path.
C20_UrlJoinedOnce ==
    requested # NoArguments =>
        /\ url.valid
        /\ Href(url) = StripTrailing(baseURL) \o << "/" >> \o StripLeading(requested.path)

\* The parameters whose value is neither undefined nor null, in the order
\* they were inserted.
KeptParams == SelectSeq(requested.options.params, LAMBDA p : p[2].type \notin {"undefined", "null"})

\* The string form of a parameter value.
StringForm(value) == IF value.type = "object" THEN "[object Object]" ELSE value.rest

\* C21: the query of the URL requested holds exactly the keys whose value
\* is neither undefined nor null, each once, in the order of insertion of
\* the params map, each with the string form of its value.
C21_QueryInInsertionOrder ==
    Built =>
        /\ Len(url.search) = Len(KeptParams)
        /\ \A i \in 1 .. Len(KeptParams) :
              url.search[i] = << KeptParams[i][1], StringForm(KeptParams[i][2]) >>

(***************************************************************************)
(* What the attempts send.                                                 *)
(***************************************************************************)
\* The name of a header without regard to case.
HeaderKey(name) ==
    CASE name \in {"Authorization", "authorization"} -> "authorization"
      [] name \in {"Content-Type", "content-type"} -> "content-type"
      [] OTHER -> "x-custom"

\* The value the caller supplied for the header key, if any.
Supplied(key) ==
    LET h == requested.options.headers
    IN  IF \E n \in DOMAIN h : HeaderKey(n) = key
        THEN Some(h[CHOOSE n \in DOMAIN h : HeaderKey(n) = key])
        ELSE None("")

\* C22: every attempt carries Authorization: Bearer <apiKey> and
\* Content-Type: application/json and every header the caller supplied; a
\* default has another value only when the caller supplied a header with
\* the same key, and then the value sent is the caller's.
C22_HeadersOfEveryAttempt ==
    \A w \in wire :
        /\ w.headers["authorization"] = Coalesce(Supplied("authorization"), "Bearer " \o apiKey)
        /\ w.headers["content-type"] = Coalesce(Supplied("content-type"), "application/json")
        /\ Supplied("x-custom").defined =>
              ("x-custom" \in DOMAIN w.headers /\ w.headers["x-custom"] = Supplied("x-custom").v)

\* C28: once a call has sent its request, every later attempt sends the
\* same method, URL, query, headers and body, and no step of a call
\* changes apiKey, baseURL, timeout or maxRetries of the client.
C28_SameRequestEveryAttempt ==
    [][ /\ wire # {} => wire' = wire
        /\ pc # "new" => << apiKey, baseURL, timeout, maxRetries >>' =
                           << apiKey, baseURL, timeout, maxRetries >> ]_vars

C28_Witness ==
    /\ calls = 3
    /\ Cardinality(wire) = 1
    /\ requested.method = "POST"
    /\ \E w \in wire : w.body.defined /\ w.search # << >>

C26_NoAttemptAfterSuccess ==
    /\ "2xx" \notin previous
    /\ (last.kind = "response" /\ last.status >= 200 /\ last.status <= 299) =>
          (pc \notin {"sleeping", "fetching"} /\ calls = last.attempt + 1)

\* C27: for every maxRetries, negative ones included, a call that has
\* completed has made at least one attempt, and one that rejected did so
\* with the error of one of its attempts, never with undefined.
C27_AtLeastOneAttempt ==
    (pc \in {"resolved", "rejected"} /\ url.valid) =>
        /\ calls >= 1
        /\ pc = "rejected" =>
              (thrown.class # "undefined" /\ thrown.origin \in 0 .. (calls - 1))

\* verify was called by the application with a Buffer.
VerifyReturnedForBuffer ==
    vpc = "done" /\ verified.called /\ bodyReads = << >> /\ verified.payload.kind = "buffer"

\* C30: for a payload given as bytes, verify computes the HMAC over exactly
\* those bytes: it returns true for the lower-case hexadecimal HMAC of the
\* bytes under the secret, bytes that are not valid UTF-8 included.
C30_VerifyOverRawBytes ==
    VerifyReturnedForBuffer =>
        (verified.signature = ToHex(HmacBytes(secret, verified.payload.data))
            => verified.returned)

(***************************************************************************)
(* Concurrent calls.                                                       *)
(***************************************************************************)
\* C24: calls of request that run at the same time on one client are
\* independent under every interleaving: the attempts, the delays and the
\* outcome of a call are determined by the events of that call alone, so two
\* calls (or one call at two times) that have had the same events have the
\* same locals, whatever the other call did in between.
C24_ConcurrentCallsIndependent ==
    \A p, q \in observed : p.hist = q.hist => p = q

\* One call has used all its attempts and rejected while the other one is
\* still in its first backoff sleep.
C24_Witness ==
    /\ maxRetries = MaxMaxRetries
    /\ inflight["first"].pc = "rejected"
    /\ inflight["first"].calls = maxRetries + 1
    /\ inflight["first"].slept > 0
    /\ inflight["second"].pc = "sleeping"
    /\ inflight["second"].attempt = 0

(***************************************************************************)
(* Termination.                                                            *)
(***************************************************************************)
\* C29: when every fetch settles and every backoff sleep elapses, a call
\* that has started its loop resolves or rejects, for every maxRetries and
\* every sequence of outcomes of its attempts.
C29_EveryCallTerminates ==
    (pc /= "idle") ~> (pc \in {"resolved", "rejected"})

C29_Witness ==
    /\ pc = "rejected"
    /\ maxRetries = MaxMaxRetries
    /\ calls = maxRetries + 1
    /\ slept > 0

====
